---- MODULE Spec2Model ----
(***************************************************************************)
(* Model of the covid19japan-data summarizer: src/src/verify.js (the       *)
(* validator) and src/unnamed/part_000 (summarize, generateDailySummary,   *)
(* generatePrefectureSummary, generateDailyStatsForPrefecture).            *)
(*                                                                         *)
(* Representation.                                                         *)
(*  - A calendar day 'YYYY-MM-DD' is the number of days from 2020-01-08    *)
(*    (0 is the epoch, -1 the day before).  An optional value (a date that *)
(*    may be undefined) is <<>> or <<v>>.                                  *)
(*  - An instant (a moment's valueOf) is a number of minutes from          *)
(*    2020-01-08T00:00 UTC.  A zone is its offset from UTC in minutes.     *)
(*  - A manual spreadsheet cell is the sequence of characters parseInt     *)
(*    sees after ToString; the undefined cell reads "undefined".           *)
(*  - A thrown string is a result [threw |-> TRUE, message, detail].       *)
(***************************************************************************)
EXTENDS Integers, Sequences, FiniteSets, TLC

VARIABLES
  pc,                   \* "ready" before the call, "done" after it
  patientData,          \* summarize / verifyPatients argument
  manualDailyData,      \* summarize argument: rows of the Sum By Day sheet
  manualPrefectureData, \* summarize argument: rows of the Prefecture Data sheet
  lastUpdated,          \* summarize argument
  now,                  \* the instant moment() reads
  localOffset,          \* the zone of the process (moment's local mode)
  series,               \* verifyDailySummary argument
  prefectures,          \* what generatePrefectureSummary returned
  daily,                \* how generateDailySummary ended
  ret                   \* how the called function ended

vars == <<pc, patientData, manualDailyData, manualPrefectureData, lastUpdated,
          now, localOffset, series, prefectures, daily, ret>>

(***************************************************************************)
(* Bounds of the explored inputs.                                          *)
(***************************************************************************)
MaxSeries == 11     \* longest series handed to verifyDailySummary
MaxCum == 2         \* largest cumulative value in such a series
MaxIds == 4         \* longest record list handed to verifyPatients

(***************************************************************************)
(* Generic helpers.                                                        *)
(***************************************************************************)
Returned(v) == [threw |-> FALSE, message |-> "", detail |-> <<>>, value |-> v]
Thrown(m, d) == [threw |-> TRUE, message |-> m, detail |-> d, value |-> <<>>]
NotCalled == Returned(<<>>)

RECURSIVE SumSeq(_)
SumSeq(s) == IF s = <<>> THEN 0 ELSE Head(s) + SumSeq(Tail(s))

Range(s) == {s[i] : i \in DOMAIN s}

(***************************************************************************)
(* verify.js: verifyDailySummary                                           *)
(***************************************************************************)
\* The own keys of a daily entry, in the order generateDailySummary sets them.
DailyKeys ==
  <<"confirmed", "recoveredCumulative", "deceasedCumulative",
    "criticalCumulative", "testedCumulative", "date", "confirmedCumulative",
    "confirmedAvg3d", "confirmedCumulativeAvg3d", "confirmedAvg7d",
    "confirmedCumulativeAvg7d">>

\* _.keys(object): the own enumerable keys, as an array.
Keys(o) == SelectSeq(DailyKeys, LAMBDA k : k \in DOMAIN o)

\* for (let key in array): the enumerable property names of an array are its
\* indices, as strings "0", "1", ...
ForIn(arr) == [i \in 1..Len(arr) |-> ToString(i - 1)]

\* key.endsWith('Cumulative'), over the strings the model can produce: the
\* entry's field names and the decimal index strings.
EndsWithCumulative(key) ==
  key \in {"recoveredCumulative", "deceasedCumulative", "criticalCumulative",
           "testedCumulative", "confirmedCumulative"}

MinDays == 10

InsufficientHistory == "ValidationError: Expecting more than 10 days of data."
StaleCumulative == "ValidationError: for the latest day is 0."
DuplicateCaseId == "ValidationError: Duplicated patientIds detected"

\* The body of the for-in loop, from position i of the iterated names on:
\* the first key that throws, or <<>>.
RECURSIVE StaleKey(_, _, _)
StaleKey(latestDay, names, i) ==
  IF i > Len(names) THEN <<>>
  ELSE IF EndsWithCumulative(names[i]) /\ latestDay[names[i]] < 1
       THEN <<names[i]>>
       ELSE StaleKey(latestDay, names, i + 1)

verifyDailySummary_Threshold(dailySummary) ==
  IF Len(dailySummary) < MinDays - 1
  THEN Thrown(InsufficientHistory, <<>>)
  ELSE Returned(dailySummary)

verifyDailySummary(dailySummary) ==
  IF Len(dailySummary) < MinDays
  THEN Thrown(InsufficientHistory, <<>>)
  ELSE LET latestDay == dailySummary[Len(dailySummary)]
           stale == StaleKey(latestDay, ForIn(Keys(latestDay)), 1)
       IN IF stale # <<>> THEN Thrown(StaleCumulative, stale)
          ELSE Returned(dailySummary)

(***************************************************************************)
(* verify.js: verifyPatients                                               *)
(***************************************************************************)
\* The loop over the records from position i on; patientIds is the set of
\* keys of the object of that name, duplicates the array.
RECURSIVE ScanPatients(_, _, _, _)
ScanPatients(patients, i, patientIds, duplicates) ==
  IF i > Len(patients) THEN duplicates
  ELSE LET id == patients[i].patientId IN
       IF id = -1 THEN ScanPatients(patients, i + 1, patientIds, duplicates)
       ELSE ScanPatients(patients, i + 1, patientIds \cup {id},
                         IF id \in patientIds THEN Append(duplicates, id)
                         ELSE duplicates)

RECURSIVE ScanAll(_, _, _, _)
ScanAll(patients, i, patientIds, duplicates) ==
  IF i > Len(patients) THEN duplicates
  ELSE LET id == patients[i].patientId IN
       ScanAll(patients, i + 1, patientIds \cup {id},
               IF id \in patientIds THEN Append(duplicates, id)
               ELSE duplicates)

verifyPatients_NoSentinel(patients) ==
  LET duplicates == ScanAll(patients, 1, {}, <<>>)
  IN IF Len(duplicates) > 0 THEN Thrown(DuplicateCaseId, duplicates)
     ELSE Returned(patients)

verifyPatients(patients) ==
  LET duplicates == ScanPatients(patients, 1, {}, <<>>)
  IN IF Len(duplicates) > 0 THEN Thrown(DuplicateCaseId, duplicates)
     ELSE Returned(patients)

(***************************************************************************)
(* part_000: safeParseInt                                                  *)
(***************************************************************************)
\* String(undefined), which is what parseInt reads in a missing cell.
Undefined == <<"u", "n", "d", "e", "f", "i", "n", "e", "d">>

RECURSIVE TrimStart(_)
TrimStart(s) ==
  IF s # <<>> /\ Head(s) = " " THEN TrimStart(Tail(s)) ELSE s

DigitValue(c) ==
  CASE c = "0" -> 0 [] c = "1" -> 1 [] c = "2" -> 2 [] c = "3" -> 3
    [] c = "4" -> 4 [] c = "5" -> 5 [] c = "6" -> 6 [] c = "7" -> 7
    [] c = "8" -> 8 [] c = "9" -> 9 [] c \in {"a", "A"} -> 10
    [] c \in {"b", "B"} -> 11 [] c \in {"c", "C"} -> 12
    [] c \in {"d", "D"} -> 13 [] c \in {"e", "E"} -> 14
    [] c \in {"f", "F"} -> 15 [] OTHER -> 36

\* The longest prefix of digits of the radix: <<its value>>, or <<>> if empty.
RECURSIVE ParseDigits(_, _, _, _)
ParseDigits(s, radix, acc, any) ==
  IF s # <<>> /\ DigitValue(Head(s)) < radix
  THEN ParseDigits(Tail(s), radix, acc * radix + DigitValue(Head(s)), TRUE)
  ELSE IF any THEN <<acc>> ELSE <<>>

\* parseInt(v) with no radix: leading blanks, a sign, a 0x prefix, digits.
\* <<>> is NaN.
ParseInt(v) ==
  LET t == TrimStart(v)
      signed == t # <<>> /\ Head(t) \in {"-", "+"}
      u == IF signed THEN Tail(t) ELSE t
      hex == Len(u) >= 2 /\ u[1] = "0" /\ u[2] \in {"x", "X"}
      digits == IF hex THEN ParseDigits(SubSeq(u, 3, Len(u)), 16, 0, FALSE)
                ELSE ParseDigits(u, 10, 0, FALSE)
  IN IF digits = <<>> THEN <<>>
     ELSE IF signed /\ Head(t) = "-" THEN <<0 - digits[1]>> ELSE digits

safeParseInt_Sentinel(v) ==
  LET result == ParseInt(v)
  IN IF result = <<>> THEN 0 - 1 ELSE result[1]

safeParseInt(v) ==
  LET result == ParseInt(v)
  IN IF result = <<>> THEN 0 ELSE result[1]

(***************************************************************************)
(* Objects used as dictionaries: a sequence of <<key, value>> pairs in     *)
(* insertion order, which is the order _.toPairs and _.keys give for       *)
(* string keys.                                                            *)
(***************************************************************************)
HasKey(obj, k) == \E i \in DOMAIN obj : obj[i][1] = k
IndexOf(obj, k) == CHOOSE i \in DOMAIN obj : obj[i][1] = k
SetField(rec, k, v) == (k :> v) @@ rec

\* _.sortBy on <<key, value>> pairs with the key as the criterion: a stable
\* ascending sort.  InsertPair puts x after every pair whose key is <= its own.
InsertPair(sorted, x) ==
  LET k == Cardinality({j \in DOMAIN sorted : sorted[j][1] <= x[1]})
  IN SubSeq(sorted, 1, k) \o <<x>> \o SubSeq(sorted, k + 1, Len(sorted))

RECURSIVE SortPairs(_, _, _)
SortPairs(pairs, i, sorted) ==
  IF i > Len(pairs) THEN sorted
  ELSE SortPairs(pairs, i + 1, InsertPair(sorted, pairs[i]))

SortByKey(pairs) == SortPairs(pairs, 1, <<>>)

Reverse(seq) == [i \in DOMAIN seq |-> seq[Len(seq) + 1 - i]]

\* The loops over the patient list below run positions lo..hi left half
\* first, then right half: the same left-to-right pass, at logarithmic depth.
\* TLC evaluates an argument only when it is read, so the left half's result
\* is compared with itself to have it computed before the right half starts.

(***************************************************************************)
(* part_000: summarize's _.orderBy(patientData, ['dateAnnounced'], ['asc']) *)
(* A stable ascending sort in which undefined dates come last.             *)
(***************************************************************************)
DateBefore(a, b) == a # <<>> /\ (b = <<>> \/ a[1] < b[1])

InsertPatient(sorted, patient) ==
  LET k == Cardinality({j \in DOMAIN sorted :
              ~DateBefore(patient.dateAnnounced, sorted[j].dateAnnounced)})
  IN SubSeq(sorted, 1, k) \o <<patient>> \o SubSeq(sorted, k + 1, Len(sorted))

OrderByDateAnnounced(patientList) ==
  LET RECURSIVE run(_, _, _)
      run(lo, hi, acc) ==
        IF lo > hi THEN acc
        ELSE IF lo = hi THEN InsertPatient(acc, patientList[lo])
        ELSE LET left == run(lo, (lo + hi) \div 2, acc)
             IN IF left = left THEN run((lo + hi) \div 2 + 1, hi, left)
                ELSE left
  IN run(1, Len(patientList), <<>>)

(***************************************************************************)
(* part_000: generateDailySummary                                          *)
(***************************************************************************)
NewDay ==
  [confirmed |-> 0, recoveredCumulative |-> 0, deceasedCumulative |-> 0,
   criticalCumulative |-> 0, testedCumulative |-> 0]

\* The body of the first loop, for one record.
CountAnnounced(dailySummary, patient) ==
  IF patient.dateAnnounced = <<>> THEN dailySummary
  ELSE LET dateAnnounced == patient.dateAnnounced[1]
           created == IF HasKey(dailySummary, dateAnnounced)
                      THEN dailySummary
                      ELSE Append(dailySummary, <<dateAnnounced, NewDay>>)
           j == IndexOf(created, dateAnnounced)
       IN IF patient.confirmedPatient
          THEN [created EXCEPT ![j][2].confirmed = @ + 1]
          ELSE created

\* The first loop: group the records by dateAnnounced, count the confirmed.
GroupByDate(patients) ==
  LET RECURSIVE run(_, _, _)
      run(lo, hi, acc) ==
        IF lo > hi THEN acc
        ELSE IF lo = hi THEN CountAnnounced(acc, patients[lo])
        ELSE LET left == run(lo, (lo + hi) \div 2, acc)
             IN IF left = left THEN run((lo + hi) \div 2 + 1, hi, left)
                ELSE left
  IN run(1, Len(patients), <<>>)

\* The second loop: merge the manually sourced rows.
RECURSIVE MergeManual(_, _, _)
MergeManual(rows, i, dailySummary) ==
  IF i > Len(rows) THEN dailySummary
  ELSE LET row == rows[i] IN
       IF row.date # <<>> /\ HasKey(dailySummary, row.date[1])
       THEN LET j == IndexOf(dailySummary, row.date[1]) IN
            MergeManual(rows, i + 1,
              [dailySummary EXCEPT
                 ![j][2].recoveredCumulative = safeParseInt(row.recovered),
                 ![j][2].deceasedCumulative = safeParseInt(row.deceased),
                 ![j][2].criticalCumulative = safeParseInt(row.critical),
                 ![j][2].testedCumulative = safeParseInt(row.tested)])
       ELSE MergeManual(rows, i + 1, dailySummary)

\* _.map(_.sortBy(_.toPairs(dailySummary), a => a[0]), v => {o.date = v[0]}),
\* with confirmedCumulative and the averages still unset.
OrderedDailySummary(dailySummary) ==
  LET sorted == SortByKey(dailySummary)
  IN [i \in DOMAIN sorted |->
        [confirmed |-> sorted[i][2].confirmed,
         recoveredCumulative |-> sorted[i][2].recoveredCumulative,
         deceasedCumulative |-> sorted[i][2].deceasedCumulative,
         criticalCumulative |-> sorted[i][2].criticalCumulative,
         testedCumulative |-> sorted[i][2].testedCumulative,
         date |-> sorted[i][1]]]

\* The confirmedCumulative loop.
Cumulate_NoCarry(ordered, i, confirmedCumulative) ==
  [k \in DOMAIN ordered |->
     [confirmed |-> ordered[k].confirmed,
      recoveredCumulative |-> ordered[k].recoveredCumulative,
      deceasedCumulative |-> ordered[k].deceasedCumulative,
      criticalCumulative |-> ordered[k].criticalCumulative,
      testedCumulative |-> ordered[k].testedCumulative,
      date |-> ordered[k].date,
      confirmedCumulative |-> ordered[k].confirmed]]

RECURSIVE Cumulate(_, _, _)
Cumulate(ordered, i, confirmedCumulative) ==
  IF i > Len(ordered) THEN ordered
  ELSE LET sum == confirmedCumulative + ordered[i].confirmed
           o == ordered[i]
           dailySum ==
             [confirmed |-> o.confirmed,
              recoveredCumulative |-> o.recoveredCumulative,
              deceasedCumulative |-> o.deceasedCumulative,
              criticalCumulative |-> o.criticalCumulative,
              testedCumulative |-> o.testedCumulative,
              date |-> o.date,
              confirmedCumulative |-> sum]
       IN Cumulate([ordered EXCEPT ![i] = dailySum], i + 1, sum)

\* buffer.push(confirmed), then the slice that keeps the last `size` values.
PushWindow(buffer, confirmed, size) ==
  LET pushed == Append(buffer, confirmed)
  IN IF Len(pushed) > size
     THEN SubSeq(pushed, Len(pushed) - size + 1, Len(pushed))
     ELSE pushed

\* Math.floor(_.sum(buffer) / size), on non-negative counts.
WindowAvg_ActualLength(buffer, size) == SumSeq(buffer) \div Len(buffer)

WindowAvg(buffer, size) == SumSeq(buffer) \div size

ThreeDays == 3
SevenDays == 7

\* The rolling-average loop.
RECURSIVE Rolling(_, _, _, _, _, _)
Rolling(ordered, i, buffer3, buffer7, cumulativeAvg3d, cumulativeAvg7d) ==
  IF i > Len(ordered) THEN ordered
  ELSE LET b3 == PushWindow(buffer3, ordered[i].confirmed, ThreeDays)
           b7 == PushWindow(buffer7, ordered[i].confirmed, SevenDays)
           avg3 == WindowAvg(b3, ThreeDays)
           avg7 == WindowAvg(b7, SevenDays)
           c3 == cumulativeAvg3d + avg3
           c7 == cumulativeAvg7d + avg7
           o == ordered[i]
           dailySum ==
             [confirmed |-> o.confirmed,
              recoveredCumulative |-> o.recoveredCumulative,
              deceasedCumulative |-> o.deceasedCumulative,
              criticalCumulative |-> o.criticalCumulative,
              testedCumulative |-> o.testedCumulative,
              date |-> o.date,
              confirmedCumulative |-> o.confirmedCumulative,
              confirmedAvg3d |-> avg3,
              confirmedCumulativeAvg3d |-> c3,
              confirmedAvg7d |-> avg7,
              confirmedCumulativeAvg7d |-> c7]
       IN Rolling([ordered EXCEPT ![i] = dailySum], i + 1, b3, b7, c3, c7)

\* One pass of the forward-fill loop's body.
PassForward_BelowOne(thisDay, previousDay) ==
  [thisDay EXCEPT
     !.recoveredCumulative = IF @ < 1 THEN previousDay.recoveredCumulative ELSE @,
     !.deceasedCumulative = IF @ < 1 THEN previousDay.deceasedCumulative ELSE @,
     !.criticalCumulative = IF @ < 1 THEN previousDay.criticalCumulative ELSE @,
     !.testedCumulative = IF @ < 1 THEN previousDay.testedCumulative ELSE @]

PassForward(thisDay, previousDay) ==
  [thisDay EXCEPT
     !.recoveredCumulative = IF @ = 0 THEN previousDay.recoveredCumulative ELSE @,
     !.deceasedCumulative = IF @ = 0 THEN previousDay.deceasedCumulative ELSE @,
     !.criticalCumulative = IF @ = 0 THEN previousDay.criticalCumulative ELSE @,
     !.testedCumulative = IF @ = 0 THEN previousDay.testedCumulative ELSE @]

\* The forward-fill loop; i is the 1-based position of thisDay.
RECURSIVE ForwardFill(_, _)
ForwardFill(ordered, i) ==
  IF i > Len(ordered) THEN ordered
  ELSE ForwardFill([ordered EXCEPT ![i] = PassForward(@, ordered[i - 1])], i + 1)

\* The series as it stands when it is handed to verifyDailySummary.
BuildDailySummary(patients, manualDaily) ==
  LET grouped == GroupByDate(patients)
      merged == MergeManual(manualDaily, 1, grouped)
      ordered == OrderedDailySummary(merged)
      summed == Cumulate(ordered, 1, 0)
      rolled == Rolling(summed, 1, <<>>, <<>>, 0, 0)
  IN ForwardFill(rolled, 2)

generateDailySummary(patients, manualDaily) ==
  verifyDailySummary(BuildDailySummary(patients, manualDaily))

(***************************************************************************)
(* part_000: generateDailyStatsForPrefecture                               *)
(* A moment is [instant, offset]: comparison reads the instant, format     *)
(* reads the calendar date at the offset.                                  *)
(***************************************************************************)
MinutesPerDay == 1440
Epoch == 0            \* '2020-01-08' as a day number
JapanOffset == 540    \* utcOffset(540)

\* moment('YYYY-MM-DD'): midnight of that day in the zone of the process.
MomentOfDate(dayNumber, zone) ==
  [instant |-> dayNumber * MinutesPerDay - zone, offset |-> zone]

\* moment().utcOffset(540): the current instant, shown in UTC+9.
MomentNow(instant) == [instant |-> instant, offset |-> JapanOffset]

\* m.format('YYYY-MM-DD'), as a day number.
FormatDate(m) == (m.instant + m.offset) \div MinutesPerDay

AddDays(m, n) == [m EXCEPT !.instant = @ + n * MinutesPerDay]

\* The while loop of generateDailyStatsForPrefecture.
RECURSIVE DailyLoop(_, _, _, _)
DailyLoop(patients, day, lastDay, dailyCounts) ==
  IF day.instant <= lastDay.instant
  THEN LET dayString == FormatDate(day)
           reports == SelectSeq(patients, LAMBDA o :
                        o.dateAnnounced = <<dayString>> /\ o.confirmedPatient)
       IN DailyLoop(patients, AddDays(day, 1), lastDay,
                    Append(dailyCounts, Len(reports)))
  ELSE dailyCounts

generateDailyStatsForPrefecture(patients, firstDay, instant) ==
  DailyLoop(patients, firstDay, MomentNow(instant), <<>>)

(***************************************************************************)
(* part_000: generatePrefectureSummary                                     *)
(***************************************************************************)
NewPrefecture ==
  [confirmed |-> 0, cruisePassenger |-> 0, cruiseWorker |-> 0, deaths |-> 0,
   patients |-> <<>>, confirmedByCity |-> <<>>]

\* confirmedByCity[cityName] += 1, or = 1 when there is no such key yet.
CountCity(confirmedByCity, cityName) ==
  IF cityName \in DOMAIN confirmedByCity
  THEN [confirmedByCity EXCEPT ![cityName] = @ + 1]
  ELSE (cityName :> 1) @@ confirmedByCity

\* The first loop's counting for one record, on its prefecture's entry.
CountPatient_CruiseOfAll(entry, patient) ==
  LET counted ==
        IF patient.confirmedPatient
        THEN [entry EXCEPT
                !.confirmed = @ + 1,
                !.confirmedByCity =
                   IF patient.detectedCityTown # ""
                   THEN CountCity(@, patient.detectedCityTown) ELSE @]
        ELSE entry
      cruise ==
        [counted EXCEPT
           !.cruisePassenger =
              IF patient.cruisePassengerDisembarked = 1 THEN @ + 1 ELSE @,
           !.cruiseWorker =
              IF patient.cruiseQuarantineOfficer = 1 THEN @ + 1 ELSE @]
  IN [cruise EXCEPT
        !.deaths = IF patient.patientStatus = "Deceased" THEN @ + 1 ELSE @,
        !.patients = Append(@, patient)]

CountPatient(entry, patient) ==
  LET counted ==
        IF patient.confirmedPatient
        THEN [entry EXCEPT
                !.confirmed = @ + 1,
                !.confirmedByCity =
                   IF patient.detectedCityTown # ""
                   THEN CountCity(@, patient.detectedCityTown) ELSE @,
                !.cruisePassenger =
                   IF patient.cruisePassengerDisembarked = 1 THEN @ + 1 ELSE @,
                !.cruiseWorker =
                   IF patient.cruiseQuarantineOfficer = 1 THEN @ + 1 ELSE @]
        ELSE entry
  IN [counted EXCEPT
        !.deaths = IF patient.patientStatus = "Deceased" THEN @ + 1 ELSE @,
        !.patients = Append(@, patient)]

\* The first loop's body with the creation of the prefecture's entry.
CountInPrefecture(prefectureSummary, patient) ==
  LET prefectureName == patient.detectedPrefecture
      created == IF HasKey(prefectureSummary, prefectureName)
                 THEN prefectureSummary
                 ELSE Append(prefectureSummary, <<prefectureName, NewPrefecture>>)
      j == IndexOf(created, prefectureName)
  IN [created EXCEPT ![j][2] = CountPatient(@, patient)]

\* The first loop: group the records by detectedPrefecture.
GroupByPrefecture(patients) ==
  LET RECURSIVE run(_, _, _)
      run(lo, hi, acc) ==
        IF lo > hi THEN acc
        ELSE IF lo = hi THEN CountInPrefecture(acc, patients[lo])
        ELSE LET left == run(lo, (lo + hi) \div 2, acc)
             IN IF left = left THEN run((lo + hi) \div 2 + 1, hi, left)
                ELSE left
  IN run(1, Len(patients), <<>>)

\* The second loop's body: the daily counts of one prefecture.
WithDailyStats(prefecture, instant, zone) ==
  LET firstDay == MomentOfDate(Epoch, zone)
      dailyConfirmed == generateDailyStatsForPrefecture(prefecture.patients, firstDay, instant)
  IN IF Len(dailyConfirmed) > 0
     THEN SetField(SetField(SetField(prefecture,
            "dailyConfirmedCount", dailyConfirmed),
            "dailyConfirmedStartDate", FormatDate(firstDay)),
            "newlyConfirmed", dailyConfirmed[Len(dailyConfirmed)])
     ELSE prefecture

\* The third loop: import the manual rows.
RECURSIVE ImportManual(_, _, _)
ImportManual(rows, i, prefectureSummary) ==
  IF i > Len(rows) THEN prefectureSummary
  ELSE LET row == rows[i] IN
       IF HasKey(prefectureSummary, row.prefecture)
       THEN LET j == IndexOf(prefectureSummary, row.prefecture) IN
            ImportManual(rows, i + 1,
              [prefectureSummary EXCEPT ![j][2] =
                 SetField(SetField(SetField(@,
                   "recovered", safeParseInt(row.recovered)),
                   "deaths", safeParseInt(row.deaths)),
                   "name_ja", row.prefectureJa)])
       ELSE ImportManual(rows, i + 1, prefectureSummary)

\* delete v['patients']
StripPatients(v) == [k \in (DOMAIN v) \ {"patients"} |-> v[k]]

\* _.map(_.reverse(_.sortBy(_.toPairs(s), [a => a[1].confirmed])), name it)
OrderPrefectures_Ascending(prefectureSummary) ==
  LET sorted == SortByKey([i \in DOMAIN prefectureSummary |->
                  <<prefectureSummary[i][2].confirmed, prefectureSummary[i]>>])
  IN [i \in DOMAIN sorted |-> SetField(sorted[i][2][2], "name", sorted[i][2][1])]

OrderPrefectures(prefectureSummary) ==
  LET sorted == Reverse(SortByKey([i \in DOMAIN prefectureSummary |->
                  <<prefectureSummary[i][2].confirmed, prefectureSummary[i]>>]))
  IN [i \in DOMAIN sorted |-> SetField(sorted[i][2][2], "name", sorted[i][2][1])]

generatePrefectureSummary(patients, manualPrefecture, instant, zone) ==
  LET grouped == GroupByPrefecture(patients)
      withStats == [i \in DOMAIN grouped |->
                      <<grouped[i][1], WithDailyStats(grouped[i][2], instant, zone)>>]
      imported == ImportManual(manualPrefecture, 1, withStats)
      stripped == [i \in DOMAIN imported |->
                      <<imported[i][1], StripPatients(imported[i][2])>>]
  IN OrderPrefectures(stripped)

(***************************************************************************)
(* part_000: summarize                                                     *)
(***************************************************************************)
summarize ==
  /\ pc = "ready"
  /\ \E patients \in {OrderByDateAnnounced(patientData)} :
       /\ prefectures' =
            generatePrefectureSummary(patients, manualPrefectureData, now, localOffset)
       /\ daily' = generateDailySummary(patients, manualDailyData)
  /\ ret' = IF daily'.threw THEN daily'
            ELSE Returned([prefectures |-> prefectures',
                           daily |-> daily'.value,
                           updated |-> lastUpdated])
  /\ pc' = "done"
  /\ UNCHANGED <<patientData, manualDailyData, manualPrefectureData,
                 lastUpdated, now, localOffset, series>>

\* A direct call of the exported verifyDailySummary.
CallVerifyDailySummary ==
  /\ pc = "ready"
  /\ ret' = verifyDailySummary(series)
  /\ pc' = "done"
  /\ UNCHANGED <<patientData, manualDailyData, manualPrefectureData,
                 lastUpdated, now, localOffset, series, prefectures, daily>>

\* A direct call of the exported verifyPatients.
CallVerifyPatients ==
  /\ pc = "ready"
  /\ ret' = verifyPatients(patientData)
  /\ pc' = "done"
  /\ UNCHANGED <<patientData, manualDailyData, manualPrefectureData,
                 lastUpdated, now, localOffset, series, prefectures, daily>>

(***************************************************************************)
(* Inputs.                                                                 *)
(***************************************************************************)
Patient(id, date, isConfirmed, prefecture, city, passenger, officer, status) ==
  [patientId |-> id, dateAnnounced |-> date, confirmedPatient |-> isConfirmed,
   detectedPrefecture |-> prefecture, detectedCityTown |-> city,
   cruisePassengerDisembarked |-> passenger,
   cruiseQuarantineOfficer |-> officer, patientStatus |-> status]

DailyEntry(date, confirmed, recovered, deceased, critical, tested, cumulative) ==
  [confirmed |-> confirmed, recoveredCumulative |-> recovered,
   deceasedCumulative |-> deceased, criticalCumulative |-> critical,
   testedCumulative |-> tested, date |-> date,
   confirmedCumulative |-> cumulative, confirmedAvg3d |-> 0,
   confirmedCumulativeAvg3d |-> 0, confirmedAvg7d |-> 0,
   confirmedCumulativeAvg7d |-> 0]

NoCall ==
  /\ pc = "ready"
  /\ prefectures = <<>>
  /\ daily = NotCalled
  /\ ret = NotCalled

NoSummarizeInput ==
  /\ manualDailyData = <<>>
  /\ manualPrefectureData = <<>>
  /\ lastUpdated = ""
  /\ now = 0
  /\ localOffset = 0

\* Series for verifyDailySummary: n entries, the earlier ones all alike, the
\* latest with each cumulative field drawn from -1..MaxCum.
CumValues == (0 - 1)..MaxCum

SeriesInputs ==
  {[i \in 1..n |->
      IF i = n THEN DailyEntry(i, 1, e[1], e[2], e[3], e[4], e[5])
      ELSE DailyEntry(i, f, f, f, f, f, f)] :
   n \in 0..MaxSeries, f \in {0, 1},
   e \in CumValues \X CumValues \X CumValues \X CumValues \X CumValues}

InitVerifyDaily ==
  /\ series \in SeriesInputs
  /\ patientData = <<>>
  /\ NoSummarizeInput
  /\ NoCall

SpecVerifyDaily == InitVerifyDaily /\ [][CallVerifyDailySummary]_vars

\* Record lists for verifyPatients: up to MaxIds records, identifiers drawn
\* from the sentinel -1, 0 and two ordinary ones.
CaseIds == {0 - 1, 0, 7, 42}

IdInputs ==
  UNION {{[i \in 1..n |-> Patient(ids[i], <<i>>, TRUE, "Tokyo", "", 0, 0, "")] :
          ids \in [1..n -> CaseIds]} : n \in 0..MaxIds}

InitVerifyPatients ==
  /\ patientData \in IdInputs
  /\ series = <<>>
  /\ NoSummarizeInput
  /\ NoCall

SpecVerifyPatients == InitVerifyPatients /\ [][CallVerifyPatients]_vars

(***************************************************************************)
(* Inputs of summarize.  Three families, each wide in one direction:       *)
(* the case records of a long history, the manual tables, and the regions  *)
(* with the clock.                                                         *)
(***************************************************************************)
MaxDays == 11       \* longest run of announced days in the history family
MaxExtra == 1       \* records added to the one-per-day history
MaxRows == 2        \* manual daily rows in the manual family
MaxRecords == 3     \* case records in the region family
MaxNowDay == 10     \* latest day (UTC) the clock is read on

ManualDailyRow(date, cells) ==
  [date |-> date, recovered |-> cells[1], deceased |-> cells[2],
   critical |-> cells[3], tested |-> cells[4]]

ManualPrefectureRow(prefecture, recovered, deaths, prefectureJa) ==
  [prefecture |-> prefecture, recovered |-> recovered, deaths |-> deaths,
   prefectureJa |-> prefectureJa]

\* One record per day 1..n (confirmed or not, as flags says), latest first.
History(n, flags) ==
  [i \in 1..n |->
     Patient(n + 1 - i, <<n + 1 - i>>, flags[n + 1 - i], "Tokyo", "", 0, 0, "")]

ExtraRecords ==
  {Patient(0 - 1, <<>>, TRUE, "Tokyo", "", 0, 0, ""),
   Patient(0 - 1, <<2>>, TRUE, "Tokyo", "", 0, 0, ""),
   Patient(0 - 1, <<MaxDays + 1>>, FALSE, "Tokyo", "", 0, 0, "")}

SeqsUpTo(S, n) == UNION {[1..k -> S] : k \in 0..n}

\* Confirmed counts 1, 2, 3, 4 on the first four days, then six more days
\* with one unconfirmed record each.
ShortSeriesExample ==
  [i \in 1..16 |->
     IF i <= 1 THEN Patient(i, <<1>>, TRUE, "Tokyo", "", 0, 0, "")
     ELSE IF i <= 3 THEN Patient(i, <<2>>, TRUE, "Tokyo", "", 0, 0, "")
     ELSE IF i <= 6 THEN Patient(i, <<3>>, TRUE, "Tokyo", "", 0, 0, "")
     ELSE IF i <= 10 THEN Patient(i, <<4>>, TRUE, "Tokyo", "", 0, 0, "")
     ELSE Patient(i, <<i - 6>>, FALSE, "Tokyo", "", 0, 0, "")]

InitHistory ==
  /\ \/ patientData = ShortSeriesExample
     \/ \E n \in (MinDays - 1)..MaxDays :
          \E flags \in [1..n -> BOOLEAN], extra \in SeqsUpTo(ExtraRecords, MaxExtra) :
            patientData = History(n, flags) \o extra
  /\ manualDailyData = <<ManualDailyRow(<<1>>, <<<<"5">>, <<"6">>, <<"7">>, <<"8">>>>)>>
  /\ manualPrefectureData = <<>>
  /\ lastUpdated = "2020-01-19"
  /\ now = MaxDays * MinutesPerDay
  /\ localOffset = JapanOffset
  /\ series = <<>>
  /\ NoCall

\* Manual cells, four to a row: plain numbers, zeros, unparsable cells
\* (missing, empty, letters, blank), and cells parseInt reads a prefix of.
CellRows ==
  {<<<<"5">>, <<"6">>, <<"7">>, <<"8">>>>,
   <<<<"0">>, <<"0">>, <<"0">>, <<"0">>>>,
   <<Undefined, <<>>, <<"x">>, <<" ">>>>,
   <<<<"-", "1">>, <<" ", "1", "2", "x">>, <<"0", "x", "1", "f">>, <<"1", ".", "5">>>>,
   <<<<"0">>, <<"9">>, <<"a", "b", "c">>, <<"-", "3">>>>}

RowDates == {<<>>, <<1>>, <<2>>, <<MinDays - 1>>, <<MinDays>>, <<MinDays + 1>>}

ManualDailyRows == {ManualDailyRow(d, c) : d \in RowDates, c \in CellRows}

ManualPrefectureInputs ==
  {<<>>,
   <<ManualPrefectureRow("Tokyo", Undefined, <<"x">>, "Tokyo-to")>>,
   <<ManualPrefectureRow("Osaka", <<"9">>, <<"-", "2">>, "Osaka-fu"),
     ManualPrefectureRow("Gifu", <<"1">>, <<"1">>, "Gifu-ken"),
     ManualPrefectureRow("Hokkaido", <<"3">>, <<"0">>, "Hokkaido")>>}

InitManual ==
  /\ \E n \in {MinDays - 1, MinDays} :
       patientData = History(n, [i \in 1..n |-> TRUE])
  /\ \E k \in 0..MaxRows : manualDailyData \in [1..k -> ManualDailyRows]
  /\ manualPrefectureData \in ManualPrefectureInputs \ {<<>>}
  /\ lastUpdated = "2020-01-18"
  /\ now = MinDays * MinutesPerDay
  /\ localOffset = JapanOffset
  /\ series = <<>>
  /\ NoCall

\* Region records: two regions, five shapes of record.
RegionRecords ==
  {Patient(0 - 1, s[1], s[2], r, s[3], s[4], s[5], s[6]) :
     r \in {"Tokyo", "Osaka"},
     s \in {<<<<0>>, TRUE, "", 0, 0, "">>,
            <<<<1>>, TRUE, "Shinjuku", 1, 0, "Deceased">>,
            <<<<>>, TRUE, "Minato", 0, 1, "">>,
            <<<<1>>, FALSE, "Shinjuku", 1, 1, "Deceased">>,
            <<<<0 - 1>>, FALSE, "", 0, 0, "">>}}

\* Ten announced days, so that summarize returns: one confirmed record a
\* day from the epoch on, all of a third region.
Backbone ==
  [i \in 1..MinDays |-> Patient(i, <<i - 1>>, TRUE, "Hokkaido", "", 0, 0, "")]

\* Regions with confirmed counts 5, 20, 1, in that order of first appearance
\* (the records of a day are in this order), over ten announced days.
RegionOrderExample ==
  [i \in 1..26 |->
     Patient(i, <<IF i <= 10 THEN 0 ELSE i - 17>>, TRUE,
             IF i <= 5 THEN "Aichi" ELSE IF i <= 25 THEN "Tokyo" ELSE "Gifu",
             "", 0, 0, "")]

\* The clock: the day before the epoch, and the days the backbone ends on,
\* each at four times of the day (UTC).
ClockInstants ==
  {d * MinutesPerDay + m :
     d \in {0 - 1} \cup ((MinDays - 1)..MaxNowDay), m \in {0, 480, 900, 1439}}

Zones == {0, JapanOffset, 0 - 480}

InitRegion ==
  /\ \/ /\ \/ patientData = RegionOrderExample
           \/ \E k \in 0..MaxRecords : \E records \in [1..k -> RegionRecords] :
                patientData = Backbone \o records
        /\ now \in {0 - 1, MinDays * MinutesPerDay}
        /\ localOffset = JapanOffset
     \/ /\ \E k \in 0..1 : \E records \in [1..k -> RegionRecords] :
             patientData = Backbone \o records
        /\ now \in ClockInstants
        /\ localOffset \in Zones
  /\ manualDailyData = <<>>
  /\ manualPrefectureData \in ManualPrefectureInputs
  /\ lastUpdated = ""
  /\ series = <<>>
  /\ NoCall

Init == InitHistory \/ InitManual \/ InitRegion
Next == summarize
Spec == Init /\ [][Next]_vars
SpecHistory == InitHistory /\ [][Next]_vars
SpecManual == InitManual /\ [][Next]_vars
SpecRegion == InitRegion /\ [][Next]_vars

(***************************************************************************)
(* Claims about the validator.                                             *)
(***************************************************************************)
CumulativeFields ==
  {"recoveredCumulative", "deceasedCumulative", "criticalCumulative",
   "testedCumulative", "confirmedCumulative"}

LatestBelowOne(s) ==
  s # <<>> /\ \E k \in CumulativeFields : s[Len(s)][k] < 1

\* C1: verifyDailySummary fails with StaleCumulative whenever the latest entry
\* of a series of at least 10 entries holds a value below 1 in a field whose
\* name ends in 'Cumulative'.
C1_StaleCumulativeRejected ==
  (pc = "done" /\ Len(series) >= 10 /\ LatestBelowOne(series))
    => (ret.threw /\ ret.message = StaleCumulative)

Occurrences(patients, id) ==
  Cardinality({i \in DOMAIN patients : patients[i].patientId = id})

RepeatedIds(patients) ==
  {id \in {patients[i].patientId : i \in DOMAIN patients} \ {0 - 1} :
     Occurrences(patients, id) > 1}

\* C3: verifyPatients fails with DuplicateCaseId exactly when an identifier
\* other than -1 occurs in more than one record; the failure lists every
\* identifier seen more than once; otherwise the records come back unchanged.
C3_DuplicateCaseIds ==
  pc = "done" =>
    /\ ret.threw <=> RepeatedIds(patientData) # {}
    /\ ret.threw => /\ ret.message = DuplicateCaseId
                    /\ Range(ret.detail) = RepeatedIds(patientData)
    /\ ~ret.threw => ret.value = patientData

C3_Witness ==
  /\ pc = "done"
  /\ Occurrences(patientData, 42) = 2
  /\ Occurrences(patientData, 0 - 1) = 2
  /\ ret.threw
  /\ ret.detail = <<42>>

(***************************************************************************)
(* Claims about the daily series.                                          *)
(***************************************************************************)
Produced == pc = "done" /\ ~daily.threw

AnnouncedDates ==
  {patientData[i].dateAnnounced[1] :
     i \in {j \in DOMAIN patientData : patientData[j].dateAnnounced # <<>>}}

ConfirmedAnnounced ==
  Cardinality({i \in DOMAIN patientData :
     patientData[i].dateAnnounced # <<>> /\ patientData[i].confirmedPatient})

\* The sum of confirmed over the entries lo..hi of a series.
ConfirmedSum(s, lo, hi) == SumSeq([j \in 1..(hi - lo + 1) |-> s[lo + j - 1].confirmed])

\* C4: in every series generateDailySummary returns, the dates ascend
\* strictly, confirmedCumulative is the running sum of confirmed (hence
\* non-decreasing), and its last value is the number of records that have an
\* announced date and are confirmed.
C4_CumulativeRunningSum ==
  Produced =>
    LET s == daily.value IN
    /\ \A i \in 1..(Len(s) - 1) :
         /\ s[i].date < s[i + 1].date
         /\ s[i].confirmedCumulative <= s[i + 1].confirmedCumulative
    /\ \A i \in DOMAIN s : s[i].confirmedCumulative = ConfirmedSum(s, 1, i)
    /\ s[Len(s)].confirmedCumulative = ConfirmedAnnounced

C4_Witness ==
  /\ Produced
  /\ \E i \in DOMAIN patientData :
       patientData[i].dateAnnounced = <<>> /\ patientData[i].confirmedPatient
  /\ \E i \in DOMAIN patientData :
       patientData[i].dateAnnounced # <<>> /\ ~patientData[i].confirmedPatient
  /\ \E i \in 2..Len(daily.value) :
       /\ daily.value[i].confirmed = 0
       /\ daily.value[i].confirmedCumulative = daily.value[i - 1].confirmedCumulative
  /\ daily.value[Len(daily.value)].confirmedCumulative = 7

\* C5: at every position i and for W in {3, 7}, confirmedAvg{W}d is
\* floor(S / W) with S the sum of confirmed over the last min(W, i) entries
\* ending at i: the divisor is W also while fewer than W entries exist.
C5_RollingAverages ==
  Produced =>
    LET s == daily.value
        from(i, W) == IF i > W THEN i - W + 1 ELSE 1
    IN \A i \in DOMAIN s :
         /\ s[i].confirmedAvg3d = ConfirmedSum(s, from(i, 3), i) \div 3
         /\ s[i].confirmedAvg7d = ConfirmedSum(s, from(i, 7), i) \div 7

C5_Witness ==
  /\ Produced
  /\ [i \in 1..4 |-> daily.value[i].confirmed] = <<1, 2, 3, 4>>
  /\ [i \in 1..4 |-> daily.value[i].confirmedAvg3d] = <<0, 1, 2, 3>>
  /\ [i \in 1..4 |-> daily.value[i].confirmedAvg7d] = <<0, 0, 0, 1>>

ManualFields ==
  {<<"recoveredCumulative", "recovered">>, <<"deceasedCumulative", "deceased">>,
   <<"criticalCumulative", "critical">>, <<"testedCumulative", "tested">>}

RowsFor(date) == {i \in DOMAIN manualDailyData : manualDailyData[i].date = <<date>>}

LastRowFor(date) == CHOOSE i \in RowsFor(date) : \A j \in RowsFor(date) : j <= i

\* The value the merge leaves in a date's field: the last row for the date,
\* parsed, or 0 when the table has no row for it.
ManualValue(date, column) ==
  IF RowsFor(date) = {} THEN 0
  ELSE safeParseInt(manualDailyData[LastRowFor(date)][column])

\* C6: for every entry after the first and each of the four manual fields,
\* a merged manual value of exactly 0 is replaced by the previous entry's
\* output value, a nonzero one is kept; the first entry is never filled.
C6_ForwardFill ==
  Produced =>
    LET s == daily.value IN
    \A i \in DOMAIN s : \A f \in ManualFields :
      LET manual == ManualValue(s[i].date, f[2]) IN
      s[i][f[1]] = IF i > 1 /\ manual = 0 THEN s[i - 1][f[1]] ELSE manual

C6_Witness ==
  /\ Produced
  /\ \E i \in 3..Len(daily.value) :
       /\ ManualValue(daily.value[i].date, "recovered") = 0
       /\ ManualValue(daily.value[i - 1].date, "recovered") = 0
       /\ daily.value[i].recoveredCumulative = 5
  /\ \E i \in 2..Len(daily.value) :
       /\ ManualValue(daily.value[i].date, "tested") = 0 - 3
       /\ daily.value[i].testedCumulative = 0 - 3
       /\ daily.value[i - 1].testedCumulative = 8
  /\ ManualValue(daily.value[1].date, "deceased") = 0
  /\ daily.value[1].deceasedCumulative = 0

Unparsable(cell) == ParseInt(cell) = <<>>

PrefectureRowsFor(name) ==
  {i \in DOMAIN manualPrefectureData : manualPrefectureData[i].prefecture = name}

Regions == {patientData[i].detectedPrefecture : i \in DOMAIN patientData}

RecordsOf(name) == {i \in DOMAIN patientData : patientData[i].detectedPrefecture = name}

ConfirmedOf(name) == {i \in RecordsOf(name) : patientData[i].confirmedPatient}

\* C7: generatePrefectureSummary returns exactly one entry per distinct region
\* of the case records, named by its key, with confirmed non-increasing from
\* first to last, whatever the manual region rows hold.
C7_RegionOrder ==
  pc = "done" =>
    /\ Len(prefectures) = Cardinality(Regions)
    /\ {prefectures[i].name : i \in DOMAIN prefectures} = Regions
    /\ \A i \in DOMAIN prefectures :
         prefectures[i].confirmed = Cardinality(ConfirmedOf(prefectures[i].name))
    /\ \A i \in 1..(Len(prefectures) - 1) :
         prefectures[i].confirmed >= prefectures[i + 1].confirmed

C7_Witness ==
  /\ pc = "done"
  /\ ~ret.threw
  /\ ret.value.prefectures = prefectures
  /\ Len(patientData) = 26
  /\ [i \in 1..26 |-> patientData[i].detectedPrefecture]
       = [i \in 1..26 |-> IF i <= 5 THEN "Aichi" ELSE IF i <= 25 THEN "Tokyo" ELSE "Gifu"]
  /\ [i \in 1..3 |-> prefectures[i].name] = <<"Tokyo", "Aichi", "Gifu">>
  /\ [i \in 1..3 |-> prefectures[i].confirmed] = <<20, 5, 1>>
  /\ prefectures[3].deaths = 1
  /\ prefectures[3].recovered = 1

\* The calendar date in UTC+9 at the instant the clock is read, as a day number.
TodayInJapan == (now + 540) \div 1440

\* C8: for every region, dailyConfirmedCount has one element per calendar day
\* from 2020-01-08 through the current date in UTC+9 inclusive, element k
\* counts the region's confirmed records announced on epoch + k days, and
\* newlyConfirmed is the last element; before the epoch the three fields are
\* absent.
C8_DailyCountsThroughJapanDate ==
  pc = "done" =>
    \A i \in DOMAIN prefectures :
      LET e == prefectures[i] IN
      IF TodayInJapan < 0
      THEN {"dailyConfirmedCount", "dailyConfirmedStartDate", "newlyConfirmed"}
             \cap DOMAIN e = {}
      ELSE /\ {"dailyConfirmedCount", "dailyConfirmedStartDate", "newlyConfirmed"}
                \subseteq DOMAIN e
           /\ Len(e.dailyConfirmedCount) = TodayInJapan + 1
           /\ \A k \in 0..TodayInJapan :
                e.dailyConfirmedCount[k + 1] =
                  Cardinality({j \in ConfirmedOf(e.name) :
                                 patientData[j].dateAnnounced = <<k>>})
           /\ e.newlyConfirmed = e.dailyConfirmedCount[TodayInJapan + 1]

RECURSIVE SumCounts(_, _)
SumCounts(f, S) ==
  IF S = {} THEN 0
  ELSE LET c == CHOOSE x \in S : TRUE IN f[c] + SumCounts(f, S \ {c})

\* C10: only confirmed records count toward cruisePassenger, cruiseWorker and
\* confirmedByCity, so each of the first two, and the sum of the third, is at
\* most confirmed.
C10_ConfirmedOnly ==
  pc = "done" =>
    \A i \in DOMAIN prefectures :
      LET e == prefectures[i]
          confirmed == ConfirmedOf(e.name)
          inCity(c) == {j \in confirmed : patientData[j].detectedCityTown = c}
      IN /\ e.cruisePassenger =
              Cardinality({j \in confirmed : patientData[j].cruisePassengerDisembarked = 1})
         /\ e.cruiseWorker =
              Cardinality({j \in confirmed : patientData[j].cruiseQuarantineOfficer = 1})
         /\ DOMAIN e.confirmedByCity =
              {patientData[j].detectedCityTown : j \in confirmed} \ {""}
         /\ \A c \in DOMAIN e.confirmedByCity :
              e.confirmedByCity[c] = Cardinality(inCity(c))
         /\ e.cruisePassenger <= e.confirmed
         /\ e.cruiseWorker <= e.confirmed
         /\ SumCounts(e.confirmedByCity, DOMAIN e.confirmedByCity) <= e.confirmed

C10_Witness ==
  /\ pc = "done"
  /\ ~ret.threw
  /\ ret.value.prefectures = prefectures
  /\ \E i \in DOMAIN prefectures :
       /\ \E j \in RecordsOf(prefectures[i].name) :
            /\ ~patientData[j].confirmedPatient
            /\ patientData[j].cruisePassengerDisembarked = 1
            /\ patientData[j].cruiseQuarantineOfficer = 1
            /\ patientData[j].detectedCityTown = "Shinjuku"
       /\ prefectures[i].confirmed = 2
       /\ prefectures[i].cruisePassenger = 0
       /\ prefectures[i].cruiseWorker = 1
       /\ DOMAIN prefectures[i].confirmedByCity = {"Minato"}

====
